---- MODULE Spec2Model ----
(***************************************************************************)
(* Travelleasy backend (src/server.js): the OTP verifier, the user store   *)
(* and the ticket lifecycle with its face-verification gate, as state      *)
(* machines.  One action per handler segment between two awaits: Node runs *)
(* each segment to completion on a single thread.                          *)
(*                                                                         *)
(* Clocks.  otpNow counts minutes (the OTP lifetime is 5 of them), now     *)
(* counts half days (the ticket TTL is 2 of them).  A setTimeout callback  *)
(* that is due runs before any request segment of the same instant: the    *)
(* event loop's timers phase precedes its poll phase.                      *)
(***************************************************************************)
EXTENDS Integers, Sequences, FiniteSets, TLC

VARIABLES
    otpNow,        \* wall clock of the OTP store, in minutes
    otpStore,      \* let otpStore = {}            (server.js:35)
    timers,        \* pending setTimeout callbacks (server.js:165)
    sends,         \* the /send-otp requests so far, in order of arrival
    lastStoredBy,  \* history: the request that last stored a code for a phone
    storedAt,      \* history: when that request stored it
    consumedCode,  \* history: code verified for a phone, no code stored since
    otpResp,       \* the last response of /send-otp or /verify-otp
    now,           \* wall clock of the database side, in half days
    users,         \* the User collection          (server.js:46-53, 71)
    regs,          \* /register requests awaiting their save
    idCounter,     \* ObjectIds handed out so far
    tickets,       \* the Ticket collection        (server.js:56-67, 72)
    purged,        \* history: ticketIds the TTL index has deleted
    vreqs,         \* /verify-ticket requests awaiting their user lookup
    matchVerified, \* history: ticketIds verified by the owner with a matching face
    resp           \* the last response of a database-backed route

otpVars == <<otpNow, otpStore, timers, sends, lastStoredBy, storedAt, consumedCode,
             otpResp>>

dbVars == <<now, users, regs, idCounter, tickets, purged, vreqs, matchVerified,
            resp>>

vars == <<otpVars, dbVars>>

(***************************************************************************)
(* Bounds of the model.                                                    *)
(***************************************************************************)
MaxOtpTime == 5
MaxSends == 2
MaxTime == 2
MaxObjectIds == 2
MaxVerifyReqs == 2
MaxClockedVerifyReqs == 1

(***************************************************************************)
(* JavaScript values: a number, a string (of the digits of v) or undefined.*)
(***************************************************************************)
Num(n) == [t |-> "number", v |-> n]
Str(n) == [t |-> "string", v |-> n]
Undefined == [t |-> "undefined", v |-> 0]

\* x.toString() for a number or a string (server.js:164, 199)
JsToString(x) == [t |-> "string", v |-> x.v]

\* !x for the values above: undefined, 0 and "" are falsy
Falsy(x) == x.t = "undefined" \/ (x.t = "number" /\ x.v = 0)

(***************************************************************************)
(* Phone numbers are strings, modelled as tuples of characters; <<>> is a  *)
(* missing (or empty) phoneNumber field.                                   *)
(***************************************************************************)
PhoneA == <<"+", "9", "1">>
PhoneNoPlus == <<"9", "1">>
NoPhone == <<>>
SendPhoneInputs == {PhoneA, PhoneNoPlus, NoPhone}
VerifyPhoneInputs == {PhoneA, NoPhone}
StoreKeys == {PhoneA}

\* phoneNumber.startsWith('+')  (server.js:148)
StartsWithPlus(p) == Len(p) > 0 /\ p[1] = "+"

\* 5 * 60 * 1000 ms, in minutes (server.js:165)
OtpTtl == 5

\* Math.random(), in tenths
RandomDraws == {0, 5}

\* Math.floor(100000 + Math.random() * 900000)  (server.js:155)
GenerateOtp(r) == 100000 + ((r * 900000) \div 10)

OtpInputs == {Undefined} \cup {Num(GenerateOtp(r)) : r \in RandomDraws}
                \cup {Str(GenerateOtp(r)) : r \in RandomDraws}

\* Responses: the HTTP status, the message, and the token (NoToken if none)
NoToken == [phoneNumber |-> NoPhone]
MsgPhoneRequired == "Valid phone number with country code is required (e.g., +91XXXXXXXXXX)"
MsgOtpSent == "OTP sent successfully!"
MsgSendError == "Error sending OTP."
MsgOtpRequired == "Phone number and OTP are required."
MsgNoLiveOtp == "OTP expired or not requested."
MsgOtpVerified == "OTP verified successfully!"
MsgInvalidOtp == "Invalid OTP."

\* jwt.sign({ phoneNumber }, config.jwtSecret, { expiresIn: '1h' }): the
\* payload the token carries (no handler of the OTP store reads iat or exp)
SignOtpToken(p) == [phoneNumber |-> p]

\* A response, with the request it answers: the route, the request's phone
\* number and otp fields (req: the /send-otp request answered, 0 if none).
\* flip changes with every response, so that a repeated request is a step.
OtpResponse(route, p, otp, req, status, message, token) ==
    [flip |-> ~otpResp.flip, route |-> route, phone |-> p, otp |-> otp,
     req |-> req, status |-> status, message |-> message, token |-> token]

OtpInit ==
    /\ otpNow = 0
    /\ otpStore = [p \in StoreKeys |-> Undefined]
    /\ timers = {}
    /\ sends = <<>>
    /\ lastStoredBy = [p \in StoreKeys |-> 0]
    /\ storedAt = [p \in StoreKeys |-> 0]
    /\ consumedCode = [p \in StoreKeys |-> Undefined]
    /\ otpResp = [flip |-> FALSE, route |-> "", phone |-> NoPhone,
                  otp |-> Undefined, req |-> 0, status |-> 0, message |-> "",
                  token |-> NoToken]

\* A setTimeout callback whose delay has elapsed and that has not run yet
TimerDue == \E t \in timers : t.due <= otpNow

(***************************************************************************)
(* POST /send-otp, up to the await of the delivery call (server.js:145-162)*)
(***************************************************************************)
SendOtpInvalid(p) ==
    /\ UNCHANGED dbVars
    /\ ~TimerDue
    /\ (p = NoPhone \/ ~StartsWithPlus(p))
    /\ otpResp' = OtpResponse("/send-otp", p, Undefined, 0, 400,
                               MsgPhoneRequired, NoToken)
    /\ UNCHANGED <<otpNow, otpStore, timers, sends, lastStoredBy, storedAt,
                   consumedCode>>

SendOtpStart(p, r) ==
    /\ UNCHANGED dbVars
    /\ ~TimerDue
    /\ Len(sends) < MaxSends
    /\ ~(p = NoPhone \/ ~StartsWithPlus(p))
    /\ sends' = Append(sends, [phone |-> p, otp |-> Num(GenerateOtp(r)),
                               st |-> "await"])
    /\ UNCHANGED <<otpNow, otpStore, timers, lastStoredBy, storedAt, consumedCode,
                   otpResp>>

(***************************************************************************)
(* POST /send-otp after the delivery call resolved (server.js:164-171):    *)
(* the code is stored as a string and a timer is set that deletes whatever *)
(* is stored under the phone number 5 minutes later.  (Two timers for one  *)
(* phone due at the same minute act as one.)                               *)
(***************************************************************************)
\* Mutant: the code is stored but no expiry timer is set
SendOtpDeliveredNoTimer(i) ==
    /\ UNCHANGED dbVars
    /\ ~TimerDue
    /\ i \in 1..Len(sends)
    /\ sends[i].st = "await"
    /\ LET p == sends[i].phone IN
        /\ otpStore' = [otpStore EXCEPT ![p] = JsToString(sends[i].otp)]
        /\ sends' = [sends EXCEPT ![i].st = "stored"]
        /\ lastStoredBy' = [lastStoredBy EXCEPT ![p] = i]
        /\ storedAt' = [storedAt EXCEPT ![p] = otpNow]
        /\ consumedCode' = [consumedCode EXCEPT ![p] = Undefined]
    /\ otpResp' = OtpResponse("/send-otp", sends[i].phone, Undefined, i, 200,
                               MsgOtpSent, NoToken)
    /\ UNCHANGED <<otpNow, timers>>

SendOtpDelivered(i) ==
    /\ UNCHANGED dbVars
    /\ ~TimerDue
    /\ i \in 1..Len(sends)
    /\ sends[i].st = "await"
    /\ LET p == sends[i].phone IN
        /\ otpStore' = [otpStore EXCEPT ![p] = JsToString(sends[i].otp)]
        /\ timers' = timers \cup {[phone |-> p, due |-> otpNow + OtpTtl]}
        /\ sends' = [sends EXCEPT ![i].st = "stored"]
        /\ lastStoredBy' = [lastStoredBy EXCEPT ![p] = i]
        /\ storedAt' = [storedAt EXCEPT ![p] = otpNow]
        /\ consumedCode' = [consumedCode EXCEPT ![p] = Undefined]
    /\ otpResp' = OtpResponse("/send-otp", sends[i].phone, Undefined, i, 200,
                               MsgOtpSent, NoToken)
    /\ UNCHANGED otpNow

(***************************************************************************)
(* POST /send-otp after the delivery call rejected (server.js:172-179)     *)
(***************************************************************************)
\* Mutant: the failure path clears the phone's entry
SendOtpFailedClears(i) ==
    /\ UNCHANGED dbVars
    /\ ~TimerDue
    /\ i \in 1..Len(sends)
    /\ sends[i].st = "await"
    /\ sends' = [sends EXCEPT ![i].st = "failed"]
    /\ otpStore' = [otpStore EXCEPT ![sends[i].phone] = Undefined]
    /\ otpResp' = OtpResponse("/send-otp", sends[i].phone, Undefined, i, 500,
                               MsgSendError, NoToken)
    /\ UNCHANGED <<otpNow, timers, lastStoredBy, storedAt, consumedCode>>

SendOtpFailed(i) ==
    /\ UNCHANGED dbVars
    /\ ~TimerDue
    /\ i \in 1..Len(sends)
    /\ sends[i].st = "await"
    /\ sends' = [sends EXCEPT ![i].st = "failed"]
    /\ otpResp' = OtpResponse("/send-otp", sends[i].phone, Undefined, i, 500,
                               MsgSendError, NoToken)
    /\ UNCHANGED <<otpNow, otpStore, timers, lastStoredBy, storedAt, consumedCode>>

(***************************************************************************)
(* setTimeout(() => delete otpStore[phoneNumber], ...)  (server.js:165)    *)
(***************************************************************************)
OtpTimerFire(t) ==
    /\ UNCHANGED dbVars
    /\ t \in timers
    /\ t.due <= otpNow
    /\ otpStore' = [otpStore EXCEPT ![t.phone] = Undefined]
    /\ timers' = timers \ {t}
    /\ UNCHANGED <<otpNow, sends, lastStoredBy, storedAt, consumedCode, otpResp>>

(***************************************************************************)
(* POST /verify-otp (server.js:182-212): one synchronous segment           *)
(***************************************************************************)
VerifyOtpResponse(p, otp) ==
    IF p = NoPhone \/ Falsy(otp)
    THEN [status |-> 400, message |-> MsgOtpRequired, token |-> NoToken]
    ELSE IF Falsy(otpStore[p])
    THEN [status |-> 400, message |-> MsgNoLiveOtp, token |-> NoToken]
    ELSE IF otpStore[p] = JsToString(otp)
    THEN [status |-> 200, message |-> MsgOtpVerified, token |-> SignOtpToken(p)]
    ELSE [status |-> 400, message |-> MsgInvalidOtp, token |-> NoToken]

\* Mutant: a matching code is accepted but not deleted
VerifyOtpNoDelete(p, otp) ==
    /\ UNCHANGED dbVars
    /\ ~TimerDue
    /\ LET r == VerifyOtpResponse(p, otp) IN
        /\ otpResp' = OtpResponse("/verify-otp", p, otp, 0, r.status,
                                   r.message, r.token)
        /\ IF r.status = 200
           THEN consumedCode' = [consumedCode EXCEPT ![p] = JsToString(otp)]
           ELSE UNCHANGED consumedCode
    /\ UNCHANGED <<otpNow, otpStore, timers, sends, lastStoredBy, storedAt>>

VerifyOtp(p, otp) ==
    /\ UNCHANGED dbVars
    /\ ~TimerDue
    /\ LET r == VerifyOtpResponse(p, otp) IN
        /\ otpResp' = OtpResponse("/verify-otp", p, otp, 0, r.status,
                                   r.message, r.token)
        /\ IF r.status = 200
           THEN /\ otpStore' = [otpStore EXCEPT ![p] = Undefined]
                /\ consumedCode' = [consumedCode EXCEPT ![p] = JsToString(otp)]
           ELSE UNCHANGED <<otpStore, consumedCode>>
    /\ UNCHANGED <<otpNow, timers, sends, lastStoredBy, storedAt>>

OtpTick ==
    /\ UNCHANGED dbVars
    /\ ~TimerDue
    /\ otpNow < MaxOtpTime
    /\ otpNow' = otpNow + 1
    /\ UNCHANGED <<otpStore, timers, sends, lastStoredBy, storedAt, consumedCode,
                   otpResp>>

OtpNext ==
    \/ \E p \in SendPhoneInputs : SendOtpInvalid(p)
    \/ \E p \in SendPhoneInputs, r \in RandomDraws : SendOtpStart(p, r)
    \/ \E i \in 1..MaxSends : SendOtpDelivered(i)
    \/ \E i \in 1..MaxSends : SendOtpFailed(i)
    \/ \E t \in timers : OtpTimerFire(t)
    \/ \E p \in VerifyPhoneInputs, otp \in OtpInputs : VerifyOtp(p, otp)
    \/ OtpTick

(***************************************************************************)
(* The database side: users, face registration, tickets.                   *)
(*                                                                         *)
(* now counts half days.  Date.now() is read in that unit, so two requests *)
(* of one instant read the same value, and the 24 hours of the ticket TTL  *)
(* are 2 instants.                                                         *)
(***************************************************************************)
Names == {"Asha", ""}
Emails == {"a@x.in", "b@x.in", ""}
Passwords == {"pw", ""}

MsgAllFields == "All fields are required."
MsgAlreadyRegistered == "Email or phone number already registered."
MsgRegistered == "User registered successfully"
MsgRegistrationFailed == "Registration failed. Please try again."
MsgLoginFields == "Email and password are required."
MsgInvalidCredentials == "Invalid credentials."
MsgLoginSuccessful == "Login successful"
MsgImageRequired == "Image is required."
MsgFaceRegistered == "Face registered successfully"
MsgTicketFields == "All fields are required (source, destination, phoneNumber, bookingDate)."
MsgTicketCreated == "Ticket created successfully"
MsgCreateFailed == "Failed to create ticket."
MsgTicketNotFound == "Ticket not found or doesn't belong to user"
MsgFaceNotRegistered == "User face not registered"
MsgFaceFailed == "Face verification failed"
MsgTicketVerified == "Ticket verified successfully"
MsgVerifyError == "Server error during ticket verification"
MsgGetNotFound == "Ticket not found."

\* bcrypt.hash(password, 10) and bcrypt.compare: the hash is not the
\* password, and compare accepts exactly the password it was made of
BcryptHash(password) == [alg |-> "bcrypt", of |-> password]
BcryptCompare(password, hash) == hash.of = password

\* faceImagePath of a user no face was registered for
NoFace == [name |-> <<>>, data |-> ""]

\* new User({ name, email, password: hashedPassword }): phoneNumber is not
\* set, faceImagePath neither; _id is a fresh ObjectId
NewUser(id, name, email, hashedPassword) ==
    [id |-> id, name |-> name, email |-> email, password |-> hashedPassword,
     phoneNumber |-> NoPhone, faceImagePath |-> NoFace]

\* The unique indexes of userSchema: email, and phoneNumber.  The latter is
\* not sparse, so a document without phoneNumber is indexed under null and
\* collides with every other document without phoneNumber.
UserIndexViolationNone(doc) == FALSE

UserIndexViolation(doc) ==
    \E u \in users : u.email = doc.email \/ u.phoneNumber = doc.phoneNumber

\* jwt.sign({ userId, email, ... }, config.jwtSecret, { expiresIn: '1h' }):
\* the payload of a token of /register or /login (the phoneNumber /login
\* adds is undefined for every user, which JSON leaves out)
SignToken(userId, email) == [userId |-> userId, email |-> email]

\* No token in the response
NoJwt == [userId |-> 0, email |-> ""]

\* req.user.userId of a token whose payload has no userId
NoUserId == 0

\* No token presented: a route without authenticateToken
NoCredential == [kind |-> "", userId |-> NoUserId, phoneNumber |-> NoPhone]

\* A response of a database-backed route (req: the pending request it
\* answers, 0 if it is answered in the request's first segment; body: the
\* fields of a /register, /login or /create-ticket request, the id of
\* /ticket/:id;
\* matcher: compareFaces was called; cred: the token a protected route was
\* called with; at: the instant of the response).
Response(route, req, body, status, message, matcher) ==
    [flip |-> ~resp.flip, route |-> route, req |-> req, body |-> body,
     status |-> status, message |-> message, matcher |-> matcher,
     token |-> NoJwt, cred |-> NoCredential, ticket |-> {}, at |-> now]

\* A response of /register or /login that carries a token
TokenResponse(route, req, body, status, message, token) ==
    [Response(route, req, body, status, message, FALSE) EXCEPT !.token = token]

DbInit ==
    /\ now = 0
    /\ users = {}
    /\ regs = {}
    /\ idCounter = 0
    /\ tickets = {}
    /\ purged = {}
    /\ vreqs = {}
    /\ matchVerified = {}
    /\ resp = [flip |-> FALSE, route |-> "", req |-> 0, body |-> <<>>,
               status |-> 0, message |-> "", matcher |-> FALSE,
               token |-> NoJwt, cred |-> NoCredential, ticket |-> {}, at |-> 0]

Init == OtpInit /\ DbInit

OtpSpec == Init /\ [][OtpNext]_vars

(***************************************************************************)
(* POST /register up to the await of bcrypt.hash (server.js:215-239): the  *)
(* validation and the findOne by email                                     *)
(***************************************************************************)
RegisterInvalid(name, email, password) ==
    /\ name = "" \/ email = "" \/ password = ""
    /\ resp' = Response("/register", 0, <<name, email, password>>, 400,
                        MsgAllFields, FALSE)
    /\ UNCHANGED <<now, users, regs, idCounter, tickets, purged, vreqs,
                   matchVerified>>
    /\ UNCHANGED otpVars

RegisterFind(name, email, password) ==
    /\ name # "" /\ email # "" /\ password # ""
    /\ IF \E u \in users : u.email = email
       THEN /\ resp' = Response("/register", 0, <<name, email, password>>, 400,
                                MsgAlreadyRegistered, FALSE)
            /\ UNCHANGED <<regs, idCounter>>
       ELSE /\ idCounter < MaxObjectIds
            /\ idCounter' = idCounter + 1
            /\ regs' = regs \cup {NewUser(idCounter + 1, name, email,
                                          BcryptHash(password))}
            /\ UNCHANGED resp
    /\ UNCHANGED <<now, users, tickets, purged, vreqs, matchVerified>>
    /\ UNCHANGED otpVars

(***************************************************************************)
(* POST /register from user.save() on (server.js:242-273)                  *)
(***************************************************************************)
RegisterSave(doc) ==
    /\ doc \in regs
    /\ regs' = regs \ {doc}
    /\ IF UserIndexViolation(doc)
       THEN /\ resp' = Response("/register", doc.id,
                                <<doc.name, doc.email, doc.password.of>>, 500,
                                MsgRegistrationFailed, FALSE)
            /\ UNCHANGED users
       ELSE /\ users' = users \cup {doc}
            /\ resp' = TokenResponse("/register", doc.id,
                                     <<doc.name, doc.email, doc.password.of>>,
                                     201, MsgRegistered,
                                     SignToken(doc.id, doc.email))
    /\ UNCHANGED <<now, idCounter, tickets, purged, vreqs, matchVerified>>
    /\ UNCHANGED otpVars

(***************************************************************************)
(* POST /login (server.js:276-331).  The handler only reads: the findOne   *)
(* by email decides its answer.                                            *)
(***************************************************************************)
LoginPasswords == {"pw", "bad", ""}

LoginResponse(email, password) ==
    LET found == {u \in users : u.email = email}
        user == CHOOSE u \in found : TRUE
    IN  IF email = "" \/ password = ""
        THEN TokenResponse("/login", 0, <<email, password>>, 400,
                           MsgLoginFields, NoJwt)
        ELSE IF found = {}
        THEN TokenResponse("/login", 0, <<email, password>>, 401,
                           MsgInvalidCredentials, NoJwt)
        ELSE IF ~BcryptCompare(password, user.password)
        THEN TokenResponse("/login", 0, <<email, password>>, 401,
                           MsgInvalidCredentials, NoJwt)
        ELSE TokenResponse("/login", 0, <<email, password>>, 200,
                           MsgLoginSuccessful, SignToken(user.id, user.email))

\* /login with its own answer for an email that is not stored
LoginUnknownEmailTold(email, password) ==
    /\ resp' = IF email # "" /\ password # ""
                  /\ \A u \in users : u.email # email
               THEN TokenResponse("/login", 0, <<email, password>>, 404,
                                  "User not found.", NoJwt)
               ELSE LoginResponse(email, password)
    /\ UNCHANGED <<now, users, regs, idCounter, tickets, purged, vreqs,
                   matchVerified>>
    /\ UNCHANGED otpVars

Login(email, password) ==
    /\ resp' = LoginResponse(email, password)
    /\ UNCHANGED <<now, users, regs, idCounter, tickets, purged, vreqs,
                   matchVerified>>
    /\ UNCHANGED otpVars

(***************************************************************************)
(* Tokens presented to the authenticated routes.  A token that verifies is *)
(* one /register or /login signed for a stored user, or one /verify-otp    *)
(* signed for a phone number: the payload of the latter has no userId, so  *)
(* req.user.userId is undefined (NoUserId).  The other kinds are what      *)
(* authenticateToken turns away: no token, a string that is no token, a    *)
(* token signed with another secret, a token older than its hour.          *)
(***************************************************************************)
Callers == {u.id : u \in users}

PhoneB == <<"+", "4", "4">>

UserToken(id) == [kind |-> "valid", userId |-> id, phoneNumber |-> NoPhone]

OtpToken(p) == [kind |-> "valid", userId |-> NoUserId, phoneNumber |-> p]

UserTokens == {UserToken(id) : id \in Callers}

\* Who books (a user, or the holder of phone A's token) and who calls the
\* other routes (a user, or the holder of phone B's token)
BookerTokens == UserTokens \cup {OtpToken(PhoneA)}
ScannerTokens == UserTokens \cup {OtpToken(PhoneB)}

BadTokens ==
    {[kind |-> k, userId |-> NoUserId, phoneNumber |-> NoPhone] :
        k \in {"absent", "malformed"}}
    \cup {[UserToken(id) EXCEPT !.kind = k] :
             id \in Callers, k \in {"forged", "expired"}}

\* jwt.verify(token, config.jwtSecret) returns the payload
JwtDecodeOnly(token) == token.kind \in {"valid", "forged", "expired"}

JwtVerify(token) == token.kind = "valid"

\* authenticateToken calls next()
Authenticated(token) == token.kind # "absent" /\ JwtVerify(token)

MsgNoToken == "Access denied. No token provided."
MsgInvalidToken == "Invalid token."

\* The response of a protected route to a request that presented token
Authed(token, response) == [response EXCEPT !.cred = token]

ProtectedRoutes ==
    {"/register-face", "/create-ticket", "/verify-ticket", "/ticket/:id"}

(***************************************************************************)
(* authenticateToken (server.js:75-86) ending the request                  *)
(***************************************************************************)
AuthReject(route, token) ==
    /\ ~Authenticated(token)
    /\ resp' = Authed(token,
                      IF token.kind = "absent"
                      THEN Response(route, 0, <<>>, 401, MsgNoToken, FALSE)
                      ELSE Response(route, 0, <<>>, 400, MsgInvalidToken, FALSE))
    /\ UNCHANGED <<now, users, regs, idCounter, tickets, purged, vreqs,
                   matchVerified>>
    /\ UNCHANGED otpVars

(***************************************************************************)
(* A filter or an id that is undefined.  Mongoose documents that           *)
(* findOne({ _id: undefined }) is findOne({}): a condition whose value is  *)
(* undefined is left out ("ignored"); a driver that serialises undefined   *)
(* as null makes it match the documents that lack the field ("null").      *)
(* Model.findById(undefined) is findOne({ _id: null }) and finds nothing.  *)
(***************************************************************************)
UndefinedConditions == {"ignored", "null"}

(***************************************************************************)
(* Images.  A base64 string is the tuple <<picture>>, with the data-URL    *)
(* prefix <<prefix, picture>>; <<>> is a missing image field.  A picture   *)
(* shows one of two persons, or no face.                                   *)
(***************************************************************************)
Faces == {"asha", "binu"}
Pictures == Faces \cup {"noface"}
DataUrlPrefix == "data:image/jpeg;base64,"
NoImage == <<>>
\* The image field of /register-face, the faceImage field of /verify-ticket
ReferenceImages == {NoImage, <<"asha">>, <<DataUrlPrefix, "asha">>, <<"noface">>}
\* (which is not stripped of a data-URL prefix, server.js:443, 465)
LiveImages == {<<"asha">>, <<"binu">>, <<"noface">>, <<DataUrlPrefix, "asha">>}

\* image.replace(/^data:image\/\w+;base64,/, '')
StripDataUrl(image) ==
    IF Len(image) > 1 /\ image[1] = DataUrlPrefix THEN Tail(image) ELSE image

\* The bytes a base64 string decodes to: the picture, or, when the string
\* still carries the data-URL prefix, bytes that are no image
Base64Decode(image) ==
    IF Len(image) = 1 /\ image[1] \in Pictures THEN image[1] ELSE "corrupt"

(***************************************************************************)
(* POST /register-face (server.js:334-372).  The file name's time stamp is *)
(* left out: no handler reads the name, only the file under it.            *)
(***************************************************************************)
RegisterFace(token, image, undef) ==
    /\ Authenticated(token)
    /\ IF image = NoImage
       THEN /\ resp' = Authed(token, Response("/register-face", 0, <<>>, 400,
                                              MsgImageRequired, FALSE))
            /\ UNCHANGED users
       ELSE LET userId == token.userId
                filePath == <<"face", userId>>
                base64Data == StripDataUrl(image)
                file == [name |-> filePath, data |-> Base64Decode(base64Data)]
                \* findByIdAndUpdate(userId, ...) is findOneAndUpdate({ _id:
                \* userId }, ...): the users its filter matches
                matching == IF userId # NoUserId
                            THEN {u \in users : u.id = userId}
                            ELSE IF undef = "ignored" THEN users ELSE {}
                updated(m) == {IF u = m THEN [u EXCEPT !.faceImagePath = file]
                               ELSE u : u \in users}
            IN  /\ users' \in (IF matching = {} THEN {users}
                               ELSE {updated(m) : m \in matching})
                /\ resp' = Authed(token, Response("/register-face", 0, <<>>,
                                                  200, MsgFaceRegistered, FALSE))
    /\ UNCHANGED <<now, regs, idCounter, tickets, purged, vreqs, matchVerified>>
    /\ UNCHANGED otpVars

(***************************************************************************)
(* compareFaces (server.js:110-142).  The function calls canvas.loadImage, *)
(* but line 11 binds only Canvas and Image: the name canvas is not         *)
(* declared, the call throws a ReferenceError, the catch returns false.    *)
(***************************************************************************)
CanvasBound == FALSE

\* faceapi.detectSingleFace(...).withFaceDescriptor(): the person of the
\* picture, "none" when no face is detected
DetectSingleFace(picture) == IF picture \in Faces THEN picture ELSE "none"

\* faceapi.euclideanDistance of two descriptors, in tenths
EuclideanDistance(a, b) == IF a = b THEN 4 ELSE 9

MatchThreshold == 6

\* compareFaces with a catch block that returns true
compareFacesFailOpen(liveImageBase64, storedImagePath) ==
    IF ~CanvasBound THEN TRUE
    ELSE LET liveImage == Base64Decode(liveImageBase64)
             storedImage == storedImagePath.data
             liveDetection == DetectSingleFace(liveImage)
             storedDetection == DetectSingleFace(storedImage)
         IN  IF liveImage = "corrupt" \/ storedImage = "corrupt" THEN TRUE
             ELSE IF liveDetection = "none" \/ storedDetection = "none"
             THEN FALSE
             ELSE EuclideanDistance(liveDetection, storedDetection)
                      < MatchThreshold

\* compareFaces with canvas bound to the canvas module
compareFacesCanvas(liveImageBase64, storedImagePath) ==
    LET liveImage == Base64Decode(liveImageBase64)
        storedImage == storedImagePath.data
        liveDetection == DetectSingleFace(liveImage)
        storedDetection == DetectSingleFace(storedImage)
    IN  IF liveImage = "corrupt" \/ storedImage = "corrupt" THEN FALSE
        ELSE IF liveDetection = "none" \/ storedDetection = "none"
        THEN FALSE
        ELSE EuclideanDistance(liveDetection, storedDetection)
                 < MatchThreshold

compareFaces(liveImageBase64, storedImagePath) ==
    IF ~CanvasBound THEN FALSE
    ELSE LET liveImage == Base64Decode(liveImageBase64)
             storedImage == storedImagePath.data
             liveDetection == DetectSingleFace(liveImage)
             storedDetection == DetectSingleFace(storedImage)
         IN  IF liveImage = "corrupt" \/ storedImage = "corrupt" THEN FALSE
             ELSE IF liveDetection = "none" \/ storedDetection = "none"
             THEN FALSE
             ELSE EuclideanDistance(liveDetection, storedDetection)
                      < MatchThreshold

(***************************************************************************)
(* Tickets                                                                 *)
(***************************************************************************)
Sources == {"Pune", ""}
Destinations == {"Goa", ""}
TicketPhones == {PhoneA, NoPhone}
BookingDates == {"2025-06-01", "someday", ""}

\* The bodies of /create-ticket requests: the complete one, and those with
\* one field missing or with a bookingDate that is no date
CompleteBody ==
    [source |-> "Pune", destination |-> "Goa", phoneNumber |-> PhoneA,
     bookingDate |-> "2025-06-01"]

TicketBodies ==
    {b \in [source : Sources, destination : Destinations,
            phoneNumber : TicketPhones, bookingDate : BookingDates] :
        Cardinality({f \in {"source", "destination", "phoneNumber",
                            "bookingDate"} : b[f] # CompleteBody[f]}) <= 1}

\* new Date(bookingDate), and what JSON.stringify makes of it
NewDate(s) == IF s = "2025-06-01" THEN [valid |-> TRUE, iso |-> s]
              ELSE [valid |-> FALSE, iso |-> "null"]

JsonStringify(ticketData) ==
    [ticketData EXCEPT !.bookingDate = ticketData.bookingDate.iso]

\* qrcode.toDataURL(text): a function of the text
ToDataURL(text) == [png |-> text]

\* A code no ticket carries
UnknownQr ==
    ToDataURL([userId |-> 0, source |-> "", destination |-> "",
               phoneNumber |-> NoPhone, bookingDate |-> "null"])

\* Number.prototype.toString(36), then toUpperCase()
Base36Upper ==
    <<"0", "1", "2", "3", "4", "5", "6", "7", "8", "9", "A", "B", "C", "D",
      "E", "F", "G", "H", "I", "J", "K", "L", "M", "N", "O", "P", "Q", "R",
      "S", "T", "U", "V", "W", "X", "Y", "Z">>

RECURSIVE ToBase36Upper(_)
ToBase36Upper(n) ==
    IF n < 36 THEN <<Base36Upper[n + 1]>>
    ELSE ToBase36Upper(n \div 36) \o <<Base36Upper[(n % 36) + 1]>>

\* createdAt: { ..., expires: '24h' }
TicketTtl == 2

\* 'TKT-' + Date.now().toString(36).toUpperCase()
TicketIdOfDayTime(t) == <<"TKT-">> \o ToBase36Upper(t % TicketTtl)

TicketIdOf(t) == <<"TKT-">> \o ToBase36Upper(t)

\* A ticketId field without unique: true
TicketIndexViolationNone(doc) == FALSE

\* The unique index of ticketSchema
TicketIndexViolation(doc) == \E t \in tickets : t.ticketId = doc.ticketId

(***************************************************************************)
(* POST /create-ticket (server.js:375-437).  expiresAt is no path of the   *)
(* schema, so it is not stored.                                            *)
(***************************************************************************)
\* A response that carries a ticket
TicketResponse(response, ticket) == [response EXCEPT !.ticket = {ticket}]

\* userId is undefined for the token of /verify-otp: the ticket is stored
\* without userId (NoUserId).  holder is history: the phone number of the
\* token that created the ticket (NoPhone for a user's token).
CreateTicket(token, source, destination, phoneNumber, bookingDate) ==
    /\ Authenticated(token)
    /\ IF source = "" \/ destination = "" \/ phoneNumber = NoPhone
          \/ bookingDate = ""
       THEN /\ resp' = Authed(token,
                              Response("/create-ticket", 0,
                                       <<source, destination, phoneNumber,
                                         bookingDate>>,
                                       400, MsgTicketFields, FALSE))
            /\ UNCHANGED tickets
       ELSE LET userId == token.userId
                body == <<source, destination, phoneNumber, bookingDate>>
                ticketData == [userId |-> userId, source |-> source,
                               destination |-> destination,
                               phoneNumber |-> phoneNumber,
                               bookingDate |-> NewDate(bookingDate)]
                qrCode == ToDataURL(JsonStringify(ticketData))
                ticketId == TicketIdOf(now)
                ticket == [ticketId |-> ticketId, userId |-> userId,
                           source |-> source, destination |-> destination,
                           phoneNumber |-> phoneNumber, qrCode |-> qrCode,
                           status |-> "active",
                           bookingDate |-> ticketData.bookingDate,
                           createdAt |-> now, holder |-> token.phoneNumber]
            IN  IF ~ticket.bookingDate.valid \/ TicketIndexViolation(ticket)
                THEN /\ resp' = Authed(token,
                                       Response("/create-ticket", 0, body, 500,
                                                MsgCreateFailed, FALSE))
                     /\ UNCHANGED tickets
                ELSE /\ tickets' = tickets \cup {ticket}
                     /\ resp' = TicketResponse(
                                    Authed(token,
                                           Response("/create-ticket", 0, body,
                                                    201, MsgTicketCreated,
                                                    FALSE)),
                                    ticket)
    /\ UNCHANGED <<now, users, regs, idCounter, purged, vreqs, matchVerified>>
    /\ UNCHANGED otpVars

(***************************************************************************)
(* GET /ticket/:id (server.js:490-510)                                     *)
(***************************************************************************)
UnknownTicketId == <<"TKT-", "?">>

GetTicket(token, id) ==
    /\ Authenticated(token)
    /\ LET found == {t \in tickets : t.ticketId = id}
       IN  resp' = IF found = {}
                   THEN Authed(token, Response("/ticket/:id", 0, <<id>>, 404,
                                               MsgGetNotFound, FALSE))
                   ELSE TicketResponse(
                            Authed(token, Response("/ticket/:id", 0, <<id>>,
                                                   200, "", FALSE)),
                            CHOOSE t \in found : TRUE)
    /\ UNCHANGED <<now, users, regs, idCounter, tickets, purged, vreqs,
                   matchVerified>>
    /\ UNCHANGED otpVars

(***************************************************************************)
(* POST /verify-ticket up to the await of User.findById (server.js:441-    *)
(* 456): the findOne by qrCode and userId.  Several tickets of a user can  *)
(* carry the same qrCode; findOne without a sort returns any of them.      *)
(***************************************************************************)
FreeSlot == CHOOSE s \in 1..MaxVerifyReqs : \A r \in vreqs : r.slot # s

VerifyTicketFind(token, qrData, faceImage, undef) ==
    /\ Authenticated(token)
    /\ LET userId == token.userId
           found == {t \in tickets :
                        /\ t.qrCode = qrData
                        /\ IF userId # NoUserId THEN t.userId = userId
                           ELSE undef = "ignored" \/ t.userId = NoUserId}
       IN  IF found = {}
           THEN /\ resp' = Authed(token, Response("/verify-ticket", 0, <<>>,
                                                  404, MsgTicketNotFound, FALSE))
                /\ UNCHANGED vreqs
           ELSE /\ Cardinality(vreqs) < MaxVerifyReqs
                /\ \E ticket \in found :
                       vreqs' = vreqs \cup
                           {[slot |-> FreeSlot, token |-> token,
                             userId |-> userId,
                             qrData |-> qrData, faceImage |-> faceImage,
                             ticketId |-> ticket.ticketId]}
                /\ UNCHANGED resp
    /\ UNCHANGED <<now, users, regs, idCounter, tickets, purged, matchVerified>>
    /\ UNCHANGED otpVars

\* The live image shows the person of the registered reference image
SamePerson(faceImage, storedImagePath) ==
    /\ Base64Decode(faceImage) \in Faces
    /\ Base64Decode(faceImage) = storedImagePath.data

(***************************************************************************)
(* POST /verify-ticket from the result of User.findById on (server.js:456- *)
(* 487).  compareFaces resolves without waiting for anything, so the       *)
(* lookup's continuation and the comparison are one segment; ticket.save() *)
(* updates the document by its _id and throws when it is gone.             *)
(***************************************************************************)
VerifyTicketCheck(r) ==
    /\ r \in vreqs
    /\ vreqs' = vreqs \ {r}
    /\ LET found == {u \in users : u.id = r.userId}
           user == CHOOSE u \in found : TRUE
           Answer(status, message, matcher) ==
               Authed(r.token, Response("/verify-ticket", r.slot, <<>>, status,
                                        message, matcher))
       IN  IF found = {} \/ user.faceImagePath = NoFace
           THEN /\ resp' = Answer(400, MsgFaceNotRegistered, FALSE)
                /\ UNCHANGED <<tickets, matchVerified>>
           ELSE IF ~compareFaces(r.faceImage, user.faceImagePath)
           THEN /\ resp' = Answer(403, MsgFaceFailed, TRUE)
                /\ matchVerified' =
                       IF SamePerson(r.faceImage, user.faceImagePath)
                       THEN matchVerified \cup {r.ticketId}
                       ELSE matchVerified
                /\ UNCHANGED tickets
           ELSE IF \A t \in tickets : t.ticketId # r.ticketId
           THEN /\ resp' = Answer(500, MsgVerifyError, TRUE)
                /\ UNCHANGED <<tickets, matchVerified>>
           ELSE /\ tickets' = {IF t.ticketId = r.ticketId
                               THEN [t EXCEPT !.status = "used"]
                               ELSE t : t \in tickets}
                /\ resp' = Answer(200, MsgTicketVerified, TRUE)
                /\ matchVerified' =
                       IF SamePerson(r.faceImage, user.faceImagePath)
                       THEN matchVerified \cup {r.ticketId}
                       ELSE matchVerified
    /\ UNCHANGED <<now, users, regs, idCounter, purged>>
    /\ UNCHANGED otpVars

(***************************************************************************)
(* The TTL index on createdAt: the database deletes a ticket 24 hours      *)
(* after its creation (within a minute, which is less than an instant of   *)
(* this clock, but not before other requests of that instant can run).     *)
(***************************************************************************)
TtlDue(t) == now >= t.createdAt + TicketTtl

TtlPurge(t) ==
    /\ t \in tickets
    /\ TtlDue(t)
    /\ tickets' = tickets \ {t}
    /\ purged' = purged \cup {t.ticketId}
    /\ UNCHANGED <<now, users, regs, idCounter, vreqs, matchVerified, resp>>
    /\ UNCHANGED otpVars

Tick ==
    /\ now < MaxTime
    /\ \A t \in tickets : ~TtlDue(t)
    /\ now' = now + 1
    /\ UNCHANGED <<users, regs, idCounter, tickets, purged, vreqs,
                   matchVerified, resp>>
    /\ UNCHANGED otpVars

\* The user store by itself: every /register request
AuthNext ==
    \/ \E n \in Names, e \in Emails, p \in Passwords : RegisterInvalid(n, e, p)
    \/ \E n \in Names, e \in Emails, p \in Passwords : RegisterFind(n, e, p)
    \/ \E doc \in regs : RegisterSave(doc)
    \/ \E e \in Emails, p \in LoginPasswords : Login(e, p)

AuthSpec == Init /\ [][AuthNext]_vars

\* The ticket lifecycle over time, with the registration of its users:
\* registered users calling with their own tokens, one /verify-ticket
\* request in flight at a time
TicketNext ==
    \/ RegisterFind("Asha", "a@x.in", "pw")
    \/ \E doc \in regs : RegisterSave(doc)
    \/ \E c \in UserTokens, image \in ReferenceImages :
          RegisterFace(c, image, "null")
    \/ \E c \in UserTokens, b \in TicketBodies :
          CreateTicket(c, b.source, b.destination, b.phoneNumber,
                       b.bookingDate)
    \/ \E c \in UserTokens, q \in {t.qrCode : t \in tickets} \cup {UnknownQr},
          image \in LiveImages :
          /\ Cardinality(vreqs) < MaxClockedVerifyReqs
          /\ VerifyTicketFind(c, q, image, "null")
    \/ \E r \in vreqs : VerifyTicketCheck(r)
    \/ \E t \in tickets : TtlPurge(t)
    \/ Tick

TicketSpec == Init /\ [][TicketNext]_vars

\* The protected routes at one instant, called with every kind of token and
\* with requests in flight side by side.  A token of /verify-otp is
\* the same payload shape for every phone: phone A's books, phone B's scans.
\* The live images scanned here: one with the face of a reference image
\* and one without a face
ScanImages == {<<"asha">>, <<"noface">>}

ApiNext ==
    \/ RegisterFind("Asha", "a@x.in", "pw")
    \/ \E doc \in regs : RegisterSave(doc)
    \/ \E route \in ProtectedRoutes, c \in BadTokens : AuthReject(route, c)
    \/ \E c \in ScannerTokens \cup BadTokens, image \in ReferenceImages,
          undef \in UndefinedConditions : RegisterFace(c, image, undef)
    \/ \E c \in BookerTokens \cup BadTokens, b \in TicketBodies :
          CreateTicket(c, b.source, b.destination, b.phoneNumber,
                       b.bookingDate)
    \/ \E c \in ScannerTokens \cup BadTokens,
          id \in {t.ticketId : t \in tickets} \cup {UnknownTicketId} :
          GetTicket(c, id)
    \/ \E c \in ScannerTokens \cup BadTokens,
          q \in {t.qrCode : t \in tickets} \cup {UnknownQr},
          image \in ScanImages, undef \in UndefinedConditions :
          VerifyTicketFind(c, q, image, undef)
    \/ \E r \in vreqs : VerifyTicketCheck(r)

ApiSpec == Init /\ [][ApiNext]_vars

(***************************************************************************)
(* Reading a step off the response register.                               *)
(***************************************************************************)
\* This step answers a /verify-otp request
VerifyOtpStep == otpResp'.flip # otpResp.flip /\ otpResp'.route = "/verify-otp"
\* This step answers a /send-otp request
SendOtpStep == otpResp'.flip # otpResp.flip /\ otpResp'.route = "/send-otp"
\* The code of phone p is live: verifyOtp(p, that code) would be accepted
OtpLive(p) == ~Falsy(otpStore[p])
\* The latest-issued request for p among those that stored a code (0: none)
LatestIssuedStored(p) ==
    LET S == {i \in 1..Len(sends) : sends[i].phone = p /\ sends[i].st = "stored"}
    IN IF S = {} THEN 0 ELSE CHOOSE i \in S : \A j \in S : j <= i

(***************************************************************************)
(* C4: an OTP code is single-use.  Once verifyOtp(phone, code) succeeded,  *)
(* a later verifyOtp(phone, code) with no successful sendOtp for the phone *)
(* in between is answered with the no-live-code error and no token.        *)
(***************************************************************************)
C4_SingleUse ==
    [][(/\ VerifyOtpStep
        /\ otpResp'.phone \in StoreKeys
        /\ ~Falsy(otpResp'.otp)
        /\ consumedCode[otpResp'.phone] = JsToString(otpResp'.otp))
       => (/\ otpResp'.status = 400
           /\ otpResp'.message = MsgNoLiveOtp
           /\ otpResp'.token = NoToken
           /\ otpStore' = otpStore)]_vars

\* C4 witness: a consumed code was presented again and refused
C4_Witness ==
    /\ otpResp.route = "/verify-otp"
    /\ otpResp.phone \in StoreKeys
    /\ consumedCode[otpResp.phone] = JsToString(otpResp.otp)
    /\ otpResp.message = MsgNoLiveOtp

(***************************************************************************)
(* C5 (as claimed): a stored code stays verifiable until 5 minutes after   *)
(* the send that stored it, unless a verifyOtp consumes it or a later      *)
(* sendOtp for the phone overwrites it.                                    *)
(***************************************************************************)
C5_OwnLifetime ==
    [][\A p \in StoreKeys :
        (OtpLive(p) /\ (~OtpLive(p)' \/ lastStoredBy'[p] # lastStoredBy[p]))
        => \/ (VerifyOtpStep /\ otpResp'.phone = p /\ otpResp'.status = 200)
           \/ (SendOtpStep /\ otpResp'.phone = p /\ otpResp'.status = 200)
           \/ otpNow >= storedAt[p] + OtpTtl]_vars

(***************************************************************************)
(* C6: no code is accepted after its window.  Every successful verifyOtp   *)
(* consumes a code stored less than 5 minutes earlier.                     *)
(***************************************************************************)
C6_NoLateAccept ==
    [][(VerifyOtpStep /\ otpResp'.status = 200)
       => (/\ otpResp'.phone \in StoreKeys
           /\ OtpLive(otpResp'.phone)
           /\ otpNow < storedAt[otpResp'.phone] + OtpTtl)]_vars

\* C6 witness: the only code ever stored, never consumed, is refused as
\* expired once its 5 minutes have passed
C6_Witness ==
    /\ Len(sends) = 1
    /\ sends[1].st = "stored"
    /\ consumedCode[sends[1].phone] = Undefined
    /\ otpNow >= storedAt[sends[1].phone] + OtpTtl
    /\ otpResp.route = "/verify-otp"
    /\ otpResp.phone = sends[1].phone
    /\ JsToString(otpResp.otp) = JsToString(sends[1].otp)
    /\ otpResp.message = MsgNoLiveOtp

(***************************************************************************)
(* C7 (as claimed): after several successful sendOtp requests for a phone, *)
(* under any interleaving of their delivery calls, verifyOtp accepts only  *)
(* the code of the most recently issued request.                           *)
(***************************************************************************)
C7_LatestIssuedWins ==
    [][(VerifyOtpStep /\ otpResp'.status = 200)
       => JsToString(otpResp'.otp) =
            JsToString(sends[LatestIssuedStored(otpResp'.phone)].otp)]_vars

(***************************************************************************)
(* C8: a sendOtp whose delivery call fails is answered with the delivery   *)
(* error (500), stores no code and sets no timer: neither of its segments  *)
(* changes the OTP store or the timers, so a code that was live before is  *)
(* still the live code.                                                    *)
(***************************************************************************)
C8_FailedSendStoresNothing ==
    [][/\ Len(sends') > Len(sends) => (otpStore' = otpStore /\ timers' = timers)
       /\ \A i \in 1..Len(sends) :
            (sends[i].st = "await" /\ sends'[i].st = "failed")
            => (/\ otpStore' = otpStore
                /\ timers' = timers
                /\ lastStoredBy' = lastStoredBy
                /\ otpResp'.status = 500
                /\ otpResp'.message = MsgSendError
                /\ otpResp'.token = NoToken)]_vars

\* C8 witness: the second request failed and the first one's code is live
C8_Witness ==
    /\ Len(sends) = 2
    /\ sends[1].st = "stored"
    /\ sends[2].st = "failed"
    /\ sends[2].phone = sends[1].phone
    /\ otpResp.req = 2
    /\ otpResp.status = 500
    /\ otpStore[sends[1].phone] = JsToString(sends[1].otp)

(***************************************************************************)
(* C9 (as claimed): verifyOtp with a code that differs from the live code  *)
(* is answered 400 "Invalid OTP." with no token and leaves the store as it *)
(* is, and the next verifyOtp, with the correct code and inside the code's *)
(* 5-minute window, succeeds and returns a token.                          *)
(***************************************************************************)
C9_WrongThenCorrect ==
    [][/\ (/\ VerifyOtpStep
           /\ otpResp'.phone \in StoreKeys
           /\ ~Falsy(otpResp'.otp)
           /\ OtpLive(otpResp'.phone)
           /\ otpStore[otpResp'.phone] # JsToString(otpResp'.otp))
          => (/\ otpResp'.status = 400
              /\ otpResp'.message = MsgInvalidOtp
              /\ otpResp'.token = NoToken
              /\ otpStore' = otpStore
              /\ timers' = timers)
       /\ (/\ VerifyOtpStep
           /\ otpResp.route = "/verify-otp"
           /\ otpResp.message = MsgInvalidOtp
           /\ otpResp'.phone = otpResp.phone
           /\ JsToString(otpResp'.otp) =
                JsToString(sends[lastStoredBy[otpResp.phone]].otp)
           /\ otpNow < storedAt[otpResp.phone] + OtpTtl)
          => (/\ otpResp'.status = 200
              /\ otpResp'.token = SignOtpToken(otpResp.phone))]_vars

(***************************************************************************)
(* Reading a step of the database side off the response register.          *)
(***************************************************************************)
\* This step answers the pending /verify-ticket request r
VerifyTicketAnswered(r) ==
    /\ r \in vreqs /\ r \notin vreqs'
    /\ resp'.flip # resp.flip
    /\ resp'.route = "/verify-ticket" /\ resp'.req = r.slot

\* r is a call by the owner of a stored ticket, with the ticket's code and
\* a live image of the person whose face reference the owner registered
OwnerWithMatchingFace(r, t) ==
    /\ t \in tickets
    /\ t.ticketId = r.ticketId /\ t.qrCode = r.qrData
    /\ t.userId = r.userId /\ r.userId # NoUserId
    /\ \E u \in users : /\ u.id = r.userId
                        /\ u.faceImagePath # NoFace
                        /\ SamePerson(r.faceImage, u.faceImagePath)

\* The responses /verify-ticket has in the code; a ConflictError is none
VerifyTicketMessages ==
    {MsgTicketNotFound, MsgFaceNotRegistered, MsgFaceFailed, MsgTicketVerified,
     MsgVerifyError}

EmailsStored == {u.email : u \in users}

(***************************************************************************)
(* C1 (as claimed): once a ticket is used (its status is 'used', or a      *)
(* verifyTicket call by its owner with the right code and a matching face  *)
(* has completed on it, which the specification says makes it used), a     *)
(* further such call is rejected with a ConflictError, leaves the ticket   *)
(* unchanged and does not call the face matcher again.                     *)
(***************************************************************************)
C1_UsedTicketRejected ==
    [][\A r \in vreqs : \A t \in tickets :
          ( /\ VerifyTicketAnswered(r)
            /\ OwnerWithMatchingFace(r, t)
            /\ (t.status = "used" \/ t.ticketId \in matchVerified) )
          => /\ resp'.status \notin {200, 403}
             /\ resp'.message \notin VerifyTicketMessages
             /\ ~resp'.matcher
             /\ tickets' = tickets]_vars

(***************************************************************************)
(* C2 (as claimed): a verifyTicket call by the owner of an active ticket,  *)
(* who has a registered face reference, with the ticket's code and a live  *)
(* image that matches the reference, succeeds and leaves the ticket in     *)
(* status 'used'.                                                          *)
(***************************************************************************)
C2_MatchingFaceSucceeds ==
    [][\A r \in vreqs : \A t \in tickets :
          ( /\ VerifyTicketAnswered(r)
            /\ OwnerWithMatchingFace(r, t)
            /\ t.status = "active" )
          => /\ resp'.status = 200
             /\ resp'.message = MsgTicketVerified
             /\ \E t2 \in tickets' : /\ t2.ticketId = t.ticketId
                                     /\ t2.status = "used"]_vars

(***************************************************************************)
(* C3: over every sequence of createTicket, verifyTicket and expiry steps  *)
(* a stored ticket's status changes only from 'active' to 'used' or to     *)
(* 'expired', a new ticket starts 'active', and a ticket that expired (the *)
(* TTL index deleted it) is never stored again.                            *)
(***************************************************************************)
C3_StatusTransitions ==
    [][/\ \A t \in tickets : \A t2 \in tickets' :
            (t2.ticketId = t.ticketId /\ t2.status # t.status)
            => (t.status = "active" /\ t2.status \in {"used", "expired"})
       /\ \A t2 \in tickets' :
            /\ t2.ticketId \notin purged
            /\ (\A t \in tickets : t.ticketId # t2.ticketId)
               => t2.status = "active"]_vars

\* A ticket has expired, another is stored, and a verifyTicket call by its
\* owner with a matching face has run its face check on a stored ticket
C3_Witness ==
    /\ purged # {}
    /\ \E t \in tickets : t.ticketId \in matchVerified
    /\ resp.route = "/verify-ticket" /\ resp.req # 0 /\ resp.matcher

(***************************************************************************)
(* C10: a register request that arrives when a user with its email is      *)
(* stored is answered with the conflict response and stores nothing, no    *)
(* such request goes on to the save, and under every interleaving of       *)
(* register requests the user store holds at most one user per email.      *)
(***************************************************************************)
C10_OneUserPerEmail ==
    [][/\ \A u1 \in users' : \A u2 \in users' :
            u1.email = u2.email => u1 = u2
       /\ \A doc \in regs' \ regs : doc.email \notin EmailsStored
       /\ ( /\ resp'.flip # resp.flip
            /\ resp'.route = "/register" /\ resp'.req = 0
            /\ \A i \in 1..3 : resp'.body[i] # ""
            /\ resp'.body[2] \in EmailsStored )
          => /\ resp'.status = 400
             /\ resp'.message = MsgAlreadyRegistered
             /\ users' = users]_vars

\* The second registration of a stored email has been answered
C10_Witness ==
    /\ resp.route = "/register" /\ resp.req = 0
    /\ resp.status = 400 /\ resp.message = MsgAlreadyRegistered
    /\ resp.body[2] \in EmailsStored

(***************************************************************************)
(* C11 (as claimed): a register request with all fields present whose      *)
(* email is not in the user store when it is saved succeeds, whatever      *)
(* users were registered before: it is answered 201 with a token for the   *)
(* user it stored, with whose email and password a login then succeeds.    *)
(***************************************************************************)
C11_FreshEmailRegisters ==
    [][\A doc \in regs :
          ( /\ doc \notin regs'
            /\ resp'.route = "/register" /\ resp'.req = doc.id
            /\ doc.email \notin EmailsStored )
          => /\ resp'.status = 201
             /\ doc \in users'
             /\ resp'.token = SignToken(doc.id, doc.email)]_vars

(***************************************************************************)
(* C18: login answers an unknown email and a wrong password for a stored   *)
(* email alike: both get status 401 with the message 'Invalid              *)
(* credentials.' and no token.                                             *)
(***************************************************************************)
C18_LoginIndistinguishable ==
    [][( /\ resp'.flip # resp.flip
         /\ resp'.route = "/login"
         /\ resp'.body[1] # "" /\ resp'.body[2] # ""
         /\ \/ resp'.body[1] \notin EmailsStored
            \/ \E u \in users : /\ u.email = resp'.body[1]
                                /\ ~BcryptCompare(resp'.body[2], u.password) )
       => /\ resp'.status = 401
          /\ resp'.message = MsgInvalidCredentials
          /\ resp'.token = NoJwt]_vars

\* A wrong password for a stored email has been answered while another
\* email is unknown
C18_Witness ==
    /\ resp.route = "/login" /\ resp.status = 401
    /\ resp.body[1] \in EmailsStored
    /\ \E e \in Emails \ {""} : e \notin EmailsStored

(***************************************************************************)
(* C12: a request to a protected route whose token is absent, malformed,   *)
(* wrongly signed or expired is answered by authenticateToken (401         *)
(* 'Access denied. No token provided.' when absent, 400 'Invalid token.'   *)
(* otherwise), the route's handler does not run for it, and users,         *)
(* tickets, registrations and pending verifications stay as they were.     *)
(***************************************************************************)
BadKinds == {"absent", "malformed", "forged", "expired"}

C12_BadTokenRejected ==
    [][/\ ( resp'.flip # resp.flip /\ resp'.cred.kind \in BadKinds )
          => /\ resp'.route \in ProtectedRoutes
             /\ IF resp'.cred.kind = "absent"
                THEN resp'.status = 401 /\ resp'.message = MsgNoToken
                ELSE resp'.status = 400 /\ resp'.message = MsgInvalidToken
             /\ ~resp'.matcher /\ resp'.ticket = {} /\ resp'.token = NoJwt
             /\ UNCHANGED <<users, regs, idCounter, tickets, purged, vreqs,
                            matchVerified>>
       /\ \A r \in vreqs' \ vreqs : r.token.kind \notin BadKinds]_vars

\* An expired token of a registered user has been turned away while a
\* ticket is stored
C12_Witness ==
    /\ resp.cred.kind = "expired" /\ resp.status = 400
    /\ resp.route = "/verify-ticket"
    /\ users # {} /\ tickets # {}

(***************************************************************************)
(* C13: verifyTicket looks the ticket up by its code and its owner.  A     *)
(* call whose caller owns no stored ticket with the scanned code is        *)
(* answered 404 "Ticket not found or doesn't belong to user", the same     *)
(* for a code that no ticket has and for a ticket of somebody else; the    *)
(* matcher is not invoked and no ticket changes.                           *)
(***************************************************************************)
\* The token is the credential of the one the ticket was created for: the
\* user whose _id the ticket carries, or, for a ticket stored without
\* userId, the holder of the phone token that created it
IsOwner(token, t) ==
    IF t.userId # NoUserId
    THEN token.userId = t.userId
    ELSE token.userId = NoUserId /\ token.phoneNumber = t.holder

C13_NonOwnerNotFound ==
    [][\A r \in vreqs :
          ( /\ VerifyTicketAnswered(r)
            /\ \A t \in tickets : t.qrCode = r.qrData => ~IsOwner(r.token, t) )
          => /\ resp'.status = 404
             /\ resp'.message = MsgTicketNotFound
             /\ ~resp'.matcher
             /\ tickets' = tickets]_vars

(***************************************************************************)
(* C14: the gate fails closed.  A ticket's status becomes 'used' only in   *)
(* the step that answers a /verify-ticket request whose lookup matched the *)
(* owner, whose owner has a face reference, and whose live image shows the *)
(* person of that reference.  A request whose owner has no face reference  *)
(* is answered 400 'User face not registered'; a request whose live image  *)
(* shows somebody else, shows no face or cannot be decoded is answered 403 *)
(* 'Face verification failed' (never 500); both leave every ticket as it   *)
(* was.                                                                    *)
(***************************************************************************)
BecomesUsed(t) ==
    /\ t \in tickets /\ t.status # "used"
    /\ \E n \in tickets' : n.ticketId = t.ticketId /\ n.status = "used"

C14_FailClosedGate ==
    [][/\ \A t \in tickets :
             BecomesUsed(t)
             => \E r \in vreqs : /\ VerifyTicketAnswered(r)
                                 /\ OwnerWithMatchingFace(r, t)
       /\ \A r \in vreqs :
             VerifyTicketAnswered(r)
             => LET found == {u \in users : u.id = r.userId}
                IN  IF \A u \in found : u.faceImagePath = NoFace
                    THEN /\ resp'.status = 400
                         /\ resp'.message = MsgFaceNotRegistered
                         /\ tickets' = tickets
                    ELSE (\A u \in found :
                              ~SamePerson(r.faceImage, u.faceImagePath))
                         => /\ resp'.status = 403
                            /\ resp'.message = MsgFaceFailed
                            /\ tickets' = tickets]_vars

\* The matcher has turned a live image away that does not show the person
\* of the owner's reference, and the ticket is stored and active
C14_Witness ==
    /\ resp.route = "/verify-ticket" /\ resp.status = 403 /\ resp.matcher
    /\ matchVerified = {} /\ purged = {}
    /\ tickets # {} /\ \A t \in tickets : t.status = "active"

(***************************************************************************)
(* C15: a ticket that is past its expiry (24 hours after its creation) is  *)
(* never consumed.  No /verify-ticket request on such a ticket is answered *)
(* 200, and no step sets its status to 'used', whether the TTL index has   *)
(* deleted the ticket already or the ticket is still stored.               *)
(***************************************************************************)
\* The ticket with this identifier is past its expiry: it is stored and
\* due, or the TTL index has deleted it
PastExpiry(ticketId) ==
    \/ ticketId \in purged
    \/ \E t \in tickets : t.ticketId = ticketId /\ TtlDue(t)

C15_ExpiredNeverConsumed ==
    [][/\ \A r \in vreqs :
             (VerifyTicketAnswered(r) /\ PastExpiry(r.ticketId))
             => resp'.status # 200
       /\ \A t \in tickets :
             (BecomesUsed(t) => ~PastExpiry(t.ticketId))]_vars

\* A verification has been answered, with the matcher called, at an instant
\* at which every ticket it can have been about was stored and past its
\* expiry, the owner's matching face having been shown for each
C15_Witness ==
    /\ resp.route = "/verify-ticket" /\ resp.req # 0
    /\ resp.matcher /\ resp.status = 403
    /\ purged = {} /\ tickets # {}
    /\ \A t \in tickets : /\ resp.at >= t.createdAt + TicketTtl
                          /\ t.ticketId \in matchVerified
                          /\ t.status = "active"

(***************************************************************************)
(* C16: every /create-ticket request answered 201 has stored exactly one   *)
(* new ticket, with status 'active', with an identifier that starts with   *)
(* 'TKT-', and owned by the caller: its userId is the userId of the        *)
(* caller's token, which names a stored user.  GET /ticket/:id with the    *)
(* identifier of a stored ticket on which no verification has changed      *)
(* anything returns that ticket, with status 'active'.                     *)
(***************************************************************************)
C16_CreatedTicketActiveOwned ==
    [][/\ ( /\ resp'.flip # resp.flip
            /\ resp'.route = "/create-ticket" /\ resp'.status = 201 )
          => \E t \in tickets' \ tickets :
                /\ tickets' = tickets \cup {t}
                /\ resp'.ticket = {t}
                /\ t.status = "active"
                /\ t.ticketId[1] = "TKT-"
                /\ t.userId = resp'.cred.userId
                /\ t.userId \in {u.id : u \in users}
       /\ \A t \in tickets :
             ( /\ resp'.flip # resp.flip
               /\ resp'.route = "/ticket/:id" /\ resp'.cred.kind = "valid"
               /\ resp'.body = <<t.ticketId>>
               /\ t.ticketId \notin matchVerified )
             => /\ resp'.status = 200
                /\ resp'.ticket = {t}
                /\ t.status = "active"]_vars

(***************************************************************************)
(* C17: no two stored tickets have the same ticketId.  A /create-ticket    *)
(* request with a complete body and a valid date that derives the          *)
(* identifier of a stored ticket (it runs in the same instant) fails on    *)
(* the unique index of the storage layer: it is answered 500 'Failed to    *)
(* create ticket.', no ticket is added, and the stored ticket is as it     *)
(* was.                                                                    *)
(***************************************************************************)
\* This step answers a /create-ticket request whose fields are all present
\* and whose bookingDate is a date
CreateAnswered ==
    /\ resp'.flip # resp.flip
    /\ resp'.route = "/create-ticket"
    /\ resp'.cred.kind = "valid"
    /\ resp'.status # 400
    /\ NewDate(resp'.body[4]).valid

C17_TicketIdsUnique ==
    [][/\ \A a, b \in tickets' : a.ticketId = b.ticketId => a = b
       /\ ( /\ CreateAnswered
            /\ \E t \in tickets : t.ticketId = TicketIdOf(now) )
          => /\ resp'.status = 500
             /\ resp'.message = MsgCreateFailed
             /\ resp'.ticket = {}
             /\ tickets' = tickets]_vars

\* A request by another caller than the stored ticket's has derived the
\* stored ticket's identifier and has been turned away
C17_Witness ==
    /\ resp.route = "/create-ticket" /\ resp.status = 500
    /\ NewDate(resp.body[4]).valid
    /\ \E t \in tickets : /\ t.ticketId = TicketIdOf(resp.at)
                          /\ t.userId # resp.cred.userId

(***************************************************************************)
(* C19: the status update is an unprotected read-modify-write.  When two   *)
(* /verify-ticket requests of the owner, each with a live image of the     *)
(* owner's registered face, have both read the same active ticket before   *)
(* either has written, both are answered 200 'Ticket verified              *)
(* successfully': the first leaves the ticket 'used', and the second,      *)
(* whose read is older than that write, succeeds on it as well.  The       *)
(* status of a stored ticket is never anything but 'active' or 'used'.     *)
(***************************************************************************)
\* r read ticket t while another request of the owner with a matching face
\* was in flight for it, or before such a request wrote 'used'
RacesOn(r, t) ==
    \/ \E o \in vreqs \ {r} : OwnerWithMatchingFace(o, t)
    \/ t.status = "used"

C19_RacingVerifiesBothSucceed ==
    [][/\ \A r \in vreqs : \A t \in tickets :
             ( /\ VerifyTicketAnswered(r)
               /\ OwnerWithMatchingFace(r, t)
               /\ RacesOn(r, t) )
             => /\ resp'.status = 200
                /\ resp'.message = MsgTicketVerified
                /\ \E n \in tickets' : /\ n.ticketId = t.ticketId
                                       /\ n.status = "used"
       /\ \A n \in tickets' : n.status \in {"active", "used"}]_vars

(***************************************************************************)
(* C20: /verify-otp compares and deletes the stored code in one step.  In  *)
(* every interleaving of /verify-otp requests, /send-otp requests and      *)
(* expiry timers, a code stored by one /send-otp request is accepted at    *)
(* most once: a /verify-otp request is answered 200, or with a token, only *)
(* if no request was accepted since the code was stored, and its step      *)
(* leaves no code stored for the phone number.                             *)
(***************************************************************************)
C20_OneTokenPerStoredCode ==
    [][( /\ VerifyOtpStep
         /\ \/ otpResp'.status = 200
            \/ otpResp'.token # NoToken )
       => /\ otpResp'.phone \in StoreKeys
          /\ otpResp'.status = 200
          /\ otpResp'.token = SignOtpToken(otpResp'.phone)
          /\ ~Falsy(otpStore[otpResp'.phone])
          /\ consumedCode[otpResp'.phone] = Undefined
          /\ otpStore'[otpResp'.phone] = Undefined
          /\ consumedCode'[otpResp'.phone] # Undefined]_vars

\* A code has been accepted and deleted while its expiry timer was pending
\* and another /send-otp request was awaiting its delivery
C20_Witness ==
    /\ otpResp.route = "/verify-otp" /\ otpResp.status = 200
    /\ otpResp.phone \in StoreKeys
    /\ otpStore[otpResp.phone] = Undefined
    /\ consumedCode[otpResp.phone] # Undefined
    /\ \E t \in timers : t.phone = otpResp.phone
    /\ \E i \in 1..Len(sends) : sends[i].st = "await"

====
